---- MODULE Spec2Model ----
(***************************************************************************)
(* A model of calcinium_bot.py: the message classifier                     *)
(* (is_math_expression), the textual preprocessor (preprocess_expression,  *)
(* convert_power_operator), the allow-list evaluator (safe_eval and its    *)
(* eval_node) and the message handler (handle_expression).                 *)
(*                                                                         *)
(* A text is a sequence of one-character strings.  A syntax tree is a      *)
(* record tagged by the ast node class in field "node".  ast.parse is the  *)
(* Python standard library: the tree it returns (or its SyntaxError) is an *)
(* input of the model.                                                     *)
(***************************************************************************)
EXTENDS Integers, Sequences, FiniteSets, TLC

VARIABLES
    pc,         \* where the operation under study stands
    expr,       \* the text handed to it
    tree,       \* what ast.parse returned for the text
    converted,  \* convert_power_operator's output for the text
    result,     \* what the operation returned
    prev,       \* what it returned the time before
    sent,       \* the kinds of the replies sent so far, oldest first
    response,   \* the last reply sent
    invoked     \* the stages the last handle_expression call went through

vars == <<pc, expr, tree, converted, result, prev, sent, response, invoked>>

(***************************************************************************)
(* Characters and the character classes of Python's re module, over ASCII. *)
(***************************************************************************)
LowerCase == <<"a","b","c","d","e","f","g","h","i","j","k","l","m",
               "n","o","p","q","r","s","t","u","v","w","x","y","z">>

UpperCase == <<"A","B","C","D","E","F","G","H","I","J","K","L","M",
               "N","O","P","Q","R","S","T","U","V","W","X","Y","Z">>

Range(f) == {f[i] : i \in DOMAIN f}

Digits == {"0","1","2","3","4","5","6","7","8","9"}

Letters == Range(LowerCase) \cup Range(UpperCase)

\* [a-zA-Z_]
IdentStart == Letters \cup {"_"}

\* [a-zA-Z0-9_], which is also \w on ASCII text
IdentChars == IdentStart \cup Digits

\* \s
Whitespace == {" ", "\t", "\n"}

\* str.lower() on one character
Lower(c) ==
    IF c \in Range(UpperCase)
    THEN LowerCase[CHOOSE i \in DOMAIN UpperCase : UpperCase[i] = c]
    ELSE c

\* str.lower()
LowerText(s) == [i \in DOMAIN s |-> Lower(s[i])]

\* s[i..j-1], empty when j <= i
Slice(s, i, j) == IF j <= i THEN <<>> ELSE SubSeq(s, i, j - 1)

\* The first index at or after i whose character is outside class C
\* (Len(s)+1 when there is none): the end of a greedy C* begun at i.
RunEnd(s, i, C) ==
    CHOOSE j \in i..(Len(s) + 1) :
        /\ \A k \in i..(j - 1) : s[k] \in C
        /\ (j = Len(s) + 1 \/ s[j] \notin C)

\* The least k such that s[k..j] lies in class C (j + 1 when s[j] does not)
RunStart(s, j, C) ==
    CHOOSE k \in 1..(j + 1) :
        /\ \A m \in k..j : s[m] \in C
        /\ (k = 1 \/ s[k - 1] \notin C)

\* str.strip()
Strip(s) ==
    LET a == RunEnd(s, 1, Whitespace)
    IN  IF a > Len(s) THEN <<>>
        ELSE SubSeq(s, a, RunStart(s, Len(s), Whitespace) - 1)

\* The first index at or after i holding character c, 0 when there is none.
IndexOf(s, i, c) ==
    IF \E j \in i..Len(s) : s[j] = c
    THEN CHOOSE j \in i..Len(s) : s[j] = c /\ \A k \in i..(j - 1) : s[k] # c
    ELSE 0

(***************************************************************************)
(* convert_power_operator.  The pattern is                                 *)
(*   (OPERAND)\s*\*\*\s*(OPERAND)                                          *)
(* with OPERAND = [a-zA-Z_][a-zA-Z0-9_]* | \d+(?:\.\d+)? | \([^)]+\).      *)
(***************************************************************************)

\* An operand pattern without the parenthesized alternative.
OperandEndNoGroup(s, i) ==
    IF i > Len(s) THEN 0
    ELSE IF s[i] \in IdentStart THEN RunEnd(s, i, IdentChars)
    ELSE IF s[i] \in Digits THEN
        LET d == RunEnd(s, i, Digits)
        IN  IF d + 1 <= Len(s) /\ s[d] = "." /\ s[d + 1] \in Digits
            THEN RunEnd(s, d + 1, Digits)
            ELSE d
    ELSE 0

\* The index after the operand that starts at i, matched greedily; 0 when
\* no alternative of OPERAND matches at i.  The three alternatives start
\* with different characters, and a shorter match of an alternative is
\* followed by a character of its own class, so the greedy end is the only
\* end after which the rest of the pattern can match.
OperandEnd(s, i) ==
    IF i > Len(s) THEN 0
    ELSE IF s[i] \in IdentStart THEN RunEnd(s, i, IdentChars)
    ELSE IF s[i] \in Digits THEN
        LET d == RunEnd(s, i, Digits)
        IN  IF d + 1 <= Len(s) /\ s[d] = "." /\ s[d + 1] \in Digits
            THEN RunEnd(s, d + 1, Digits)
            ELSE d
    ELSE IF s[i] = "(" THEN
        LET c == IndexOf(s, i + 1, ")")
        IN  IF c > i + 1 THEN c + 1 ELSE 0
    ELSE 0

NoMatch == [ok |-> FALSE, base |-> <<>>, exponent |-> <<>>, end |-> 0]

\* A match of the whole pattern starting exactly at i.
PowMatch(s, i) ==
    LET e1 == OperandEnd(s, i)
    IN  IF e1 = 0 THEN NoMatch
        ELSE
            LET a  == RunEnd(s, e1, Whitespace)
                ok == a + 1 <= Len(s) /\ s[a] = "*" /\ s[a + 1] = "*"
                b  == IF ok THEN RunEnd(s, a + 2, Whitespace) ELSE 0
                e2 == IF ok THEN OperandEnd(s, b) ELSE 0
            IN  IF ok /\ e2 # 0
                THEN [ok |-> TRUE, base |-> Slice(s, i, e1),
                      exponent |-> Slice(s, b, e2), end |-> e2]
                ELSE NoMatch

\* replace_power: f'pow({base}, {exponent})'
replace_power(m) ==
    <<"p","o","w","(">> \o m.base \o <<",", " ">> \o m.exponent \o <<")">>

\* re.sub(pattern, replace_power, expr) from index i on: the leftmost match
\* is replaced and the scan resumes after it.
RECURSIVE PowSubFrom(_, _)
PowSubFrom(s, i) ==
    IF i > Len(s) THEN <<>>
    ELSE LET m == PowMatch(s, i)
         IN  IF m.ok THEN replace_power(m) \o PowSubFrom(s, m.end)
             ELSE <<s[i]>> \o PowSubFrom(s, i + 1)

\* One substitution pass instead of the loop.
ConvertOnce(e) == PowSubFrom(e, 1)

\* while prev_expr != expr: prev_expr = expr; expr = re.sub(...)
RECURSIVE convert_power_operator(_)
convert_power_operator(e) ==
    LET n == PowSubFrom(e, 1)
    IN  IF n = e THEN e ELSE convert_power_operator(n)

(***************************************************************************)
(* preprocess_expression.                                                  *)
(***************************************************************************)
function_names ==
    << <<"s","i","n">>, <<"c","o","s">>, <<"t","a","n">>,
       <<"s","q","r","t">>, <<"l","o","g">>, <<"l","o","g","1","0">>,
       <<"e","x","p">>, <<"a","b","s">>, <<"r","o","u","n","d">>,
       <<"p","o","w">>, <<"c","e","i","l">>, <<"f","l","o","o","r">>,
       <<"f","a","c","t","o","r","i","a","l">>,
       <<"d","e","g","r","e","e","s">>, <<"r","a","d","i","a","n","s">> >>

constants == << <<"p","i">>, <<"e">> >>

\* re.IGNORECASE match of the literal name at index i
MatchesAt(s, i, name) ==
    /\ i + Len(name) - 1 <= Len(s)
    /\ \A k \in 1..Len(name) : Lower(s[i + k - 1]) = name[k]

\* \b before index i: exactly one of s[i-1], s[i] is a word character
Boundary(s, i) ==
    LET before == i > 1 /\ i - 1 <= Len(s) /\ s[i - 1] \in IdentChars
        after  == i >= 1 /\ i <= Len(s) /\ s[i] \in IdentChars
    IN  before # after

\* pattern.sub(name, expr) from index i on; bounded asks for \b on both sides
RECURSIVE FoldFrom(_, _, _, _)
FoldFrom(s, i, name, bounded) ==
    IF i > Len(s) THEN <<>>
    ELSE IF /\ MatchesAt(s, i, name)
            /\ (bounded => Boundary(s, i) /\ Boundary(s, i + Len(name)))
         THEN name \o FoldFrom(s, i + Len(name), name, bounded)
         ELSE <<s[i]>> \o FoldFrom(s, i + 1, name, bounded)

\* for func in function_names: expr = pattern.sub(func, expr)
RECURSIVE FoldAll(_, _, _, _)
FoldAll(s, names, k, bounded) ==
    IF k > Len(names) THEN s
    ELSE FoldAll(FoldFrom(s, 1, names[k], bounded), names, k + 1, bounded)

preprocess_expression(e) ==
    FoldAll(FoldAll(convert_power_operator(e), function_names, 1, FALSE),
            constants, 1, TRUE)

(***************************************************************************)
(* is_math_expression.                                                     *)
(***************************************************************************)
MaxTextLen == 100

MaxWords == 5

non_math_words == {
    <<"w","o","r","k">>, <<"a","v","a","i","l","a","b","l","e">>,
    <<"o","n","l","i","n","e">>, <<"s","e","r","v","i","c","e">>,
    <<"s","u","p","p","o","r","t">>, <<"h","e","l","p">>,
    <<"h","o","u","r","s">>, <<"d","a","y","s">>, <<"t","i","m","e">>,
    <<"s","c","h","e","d","u","l","e">>, <<"s","h","i","f","t">>,
    <<"o","p","e","n">>, <<"r","o","u","n","d">>, <<"g","a","m","e">>,
    <<"m","a","t","c","h">>, <<"t","o","u","r","n","a","m","e","n","t">>,
    <<"l","e","v","e","l">>, <<"s","t","a","g","e">>,
    <<"c","h","a","p","t","e","r">>, <<"e","p","i","s","o","d","e">>,
    <<"s","e","a","s","o","n">>, <<"d","a","y">>, <<"w","e","e","k">>,
    <<"m","o","n","t","h">>, <<"y","e","a","r">>, <<"h","o","u","r">>,
    <<"m","i","n","u","t","e">>, <<"s","e","c","o","n","d">>,
    <<"p","a","g","e">>, <<"w","i","l","l">>, <<"n","o","w">>,
    <<"s","t","e","p">>, <<"p","h","a","s","e">>, <<"p","a","r","t">>,
    <<"s","e","c","t","i","o","n">>, <<"q","u","e","s","t","i","o","n">>,
    <<"p","r","o","b","l","e","m">>, <<"t","e","s","t">>,
    <<"e","x","a","m">>, <<"q","u","i","z">>, <<"l","e","s","s","o","n">>,
    <<"c","l","a","s","s">>, <<"g","r","a","d","e">>,
    <<"s","c","o","r","e">>, <<"p","o","i","n","t">>, <<"g","o","a","l">>,
    <<"t","a","r","g","e","t">>, <<"l","i","m","i","t">>, <<"m","a","x">>,
    <<"m","i","n">>, <<"t","o","t","a","l">>, <<"s","u","m">>,
    <<"c","o","u","n","t">>, <<"n","u","m","b","e","r">>,
    <<"a","m","o","u","n","t">>, <<"p","r","i","c","e">>,
    <<"c","o","s","t">>, <<"v","a","l","u","e">>, <<"r","a","t","e">>,
    <<"p","e","r","c","e","n","t">>, <<"d","e","g","r","e","e">>,
    <<"h","o","s","t">>, <<"s","e","r","v","e","r">>, <<"b","o","t">>,
    <<"i","t">>, <<"t","h","i","s">>, <<"t","h","a","t">>, <<"t","h","e">> }

\* [\*\+\-\/], the operators of the "digits embedded in prose" patterns
ProseOps == {"*", "+", "-", "/"}

\* [\+\-\*/\^%], the operators of the number-operator-number pattern
NumberOps == {"+", "-", "*", "/", "^", "%"}

\* re.search(r'\b(pi|e)\b', text): the alternatives as whole words
HasConstantWord(s) ==
    \E i \in 1..Len(s) : \E k \in DOMAIN constants :
        /\ \A j \in 1..Len(constants[k]) :
              i + j - 1 <= Len(s) /\ s[i + j - 1] = constants[k][j]
        /\ Boundary(s, i)
        /\ Boundary(s, i + Len(constants[k]))

\* A match of \d+\s*[ops]\s*\d+ whose first \d+ starts at i: the index after
\* the longest such match, 0 when there is none.
NumOpNumEnd(s, i, ops) ==
    IF i > Len(s) \/ s[i] \notin Digits THEN 0
    ELSE LET a == RunEnd(s, RunEnd(s, i, Digits), Whitespace)
             b == RunEnd(s, a + 1, Whitespace)
         IN  IF a <= Len(s) /\ s[a] \in ops /\ b <= Len(s) /\ s[b] \in Digits
             THEN RunEnd(s, b, Digits)
             ELSE 0

\* re.search(r'[a-zA-Z]\s+\d+\s*[ops]\s*\d+', s)
LetterThenNumOpNum(s, ops) ==
    \E i \in 1..Len(s) :
        /\ s[i] \in Letters
        /\ i + 1 <= Len(s) /\ s[i + 1] \in Whitespace
        /\ NumOpNumEnd(s, RunEnd(s, i + 1, Whitespace), ops) # 0

\* re.search(r'\d+\s*[ops]\s*\d+\s+[a-zA-Z]', s)
NumOpNumThenLetter(s, ops) ==
    \E i \in 1..Len(s) :
        LET e == NumOpNumEnd(s, i, ops)
        IN  /\ e # 0
            /\ e <= Len(s) /\ s[e] \in Whitespace
            /\ LET l == RunEnd(s, e, Whitespace)
               IN  l <= Len(s) /\ s[l] \in Letters

\* r'[a-zA-Z]\s+\d+\s*[\*\+\-\/]\s*\d+'
LetterThenOperation(s) == LetterThenNumOpNum(s, ProseOps)

\* r'\d+\s*[\*\+\-\/]\s*\d+\s+[a-zA-Z]'
OperationThenLetter(s) == NumOpNumThenLetter(s, ProseOps)

\* expr.split(): the maximal runs of non-whitespace characters, from index i
RECURSIVE SplitFrom(_, _)
SplitFrom(s, i) ==
    IF i > Len(s) THEN <<>>
    ELSE IF s[i] \in Whitespace THEN SplitFrom(s, i + 1)
    ELSE LET j == CHOOSE j \in i..(Len(s) + 1) :
                      /\ \A k \in i..(j - 1) : s[k] \notin Whitespace
                      /\ (j = Len(s) + 1 \/ s[j] \in Whitespace)
         IN  <<Slice(s, i, j)>> \o SplitFrom(s, j)

\* re.sub(r'[^\w]', '', word.lower())
clean_word(word) == SelectSeq(LowerText(word), LAMBDA c : c \in IdentChars)

\* any word of a several-word text is on the block-list
HasNonMathWord(words) ==
    /\ Len(words) > 1
    /\ \E k \in DOMAIN words : clean_word(words[k]) \in non_math_words

\* r'\([^)]*[\+\-\*/\^%\*\*][^)]*\)'
OperationInParens(s) ==
    \E i \in 1..Len(s) :
        /\ s[i] = "("
        /\ LET c == IndexOf(s, i + 1, ")")
           IN  c # 0 /\ \E j \in (i + 1)..(c - 1) : s[j] \in NumberOps

\* r'\*\*'
HasPowerOperator(s) ==
    \E i \in 1..(Len(s) - 1) : s[i] = "*" /\ s[i + 1] = "*"

has_operator(s) ==
    \/ \E i \in 1..Len(s) : NumOpNumEnd(s, i, NumberOps) # 0
    \/ OperationInParens(s)
    \/ HasPowerOperator(s)

\* r'\bNAME\s*\(' for each allow-listed function name, on expr.lower()
has_function(s) ==
    LET t == LowerText(s)
    IN  \E i \in 1..Len(t) : \E k \in DOMAIN function_names :
            LET name == function_names[k]
                a    == RunEnd(t, i + Len(name), Whitespace)
            IN  /\ Boundary(t, i)
                /\ i + Len(name) - 1 <= Len(t)
                /\ \A j \in 1..Len(name) : t[i + j - 1] = name[j]
                /\ a <= Len(t) /\ t[a] = "("

has_constant(s) == HasConstantWord(LowerText(s))

is_math_expression(s) ==
    IF Len(s) > MaxTextLen THEN FALSE
    ELSE IF ~((\E i \in 1..Len(s) : s[i] \in Digits) \/ has_constant(s))
         THEN FALSE
    ELSE IF LetterThenOperation(s) \/ OperationThenLetter(s) THEN FALSE
    ELSE IF Len(SplitFrom(s, 1)) > MaxWords THEN FALSE
    ELSE IF HasNonMathWord(SplitFrom(s, 1)) THEN FALSE
    ELSE has_operator(s) \/ has_function(s) \/ has_constant(s)

(***************************************************************************)
(* Python values.  A number is [ty, n, d]: the int or float n/d in lowest  *)
(* terms (d >= 1), or, with d = 0, a finite number that is not tracked     *)
(* exactly (an irrational result, or one beyond Limit).  A str is          *)
(* the text 'a' repeated n times.  PyNone and Complex carry no payload.      *)
(***************************************************************************)
Limit == 10000

Abs(x) == IF x < 0 THEN -x ELSE x

Sign(x) == IF x < 0 THEN -1 ELSE IF x = 0 THEN 0 ELSE 1

\* math.gcd on non-negative integers
RECURSIVE GCDNat(_, _)
GCDNat(a, b) == IF b = 0 THEN a ELSE GCDNat(b, a % b)

GCD(a, b) == GCDNat(Abs(a), Abs(b))

\* floor(n/d) for d > 0 (Python's //)
FloorDiv(n, d) == n \div d

Inexact == [ty |-> "float", n |-> 0, d |-> 0]

\* The number n/d of type ty in lowest terms; inexact beyond Limit.
Num(ty, n, d) ==
    LET g  == GCD(n, d)
        nn == Sign(d) * (n \div g)
        dd == Abs(d) \div g
    IN  IF Abs(nn) > Limit \/ dd > Limit
        THEN [ty |-> ty, n |-> 0, d |-> 0]
        ELSE [ty |-> ty, n |-> nn, d |-> dd]

PyInt(n) == [ty |-> "int", n |-> n, d |-> 1]

PyFloat(n, d) == Num("float", n, d)

PyStr(n) == [ty |-> "str", n |-> n, d |-> 1]

PyNone == [ty |-> "NoneType", n |-> 0, d |-> 1]

Complex == [ty |-> "complex", n |-> 0, d |-> 0]

IsNumber(v) == v.ty \in {"int", "float", "complex"}

IsReal(v) == v.ty \in {"int", "float"}

IsExact(v) == v.d # 0

IsZero(v) == IsExact(v) /\ v.n = 0

\* int op int is an int, anything with a float is a float
Wider(a, b) == IF a.ty = "int" /\ b.ty = "int" THEN "int" ELSE "float"

(***************************************************************************)
(* Outcomes: a returned value or a raised exception.                       *)
(***************************************************************************)
Return(v) == [ok |-> TRUE, value |-> v, exc |-> "", why |-> ""]

Raise(exc, why) == [ok |-> FALSE, value |-> PyNone, exc |-> exc, why |-> why]

\* x ** k for an exact x and an integer k >= 0, inexact beyond Limit
RECURSIVE PowNat(_, _, _)
PowNat(ty, x, k) ==
    IF k = 0 THEN Num(ty, 1, 1)
    ELSE LET r == PowNat(ty, x, k - 1)
         IN  IF IsExact(r) THEN Num(ty, r.n * x.n, r.d * x.d)
             ELSE r

\* operator.pow, and the built-in pow with two arguments
PyPow(a, b) ==
    IF ~IsReal(a) \/ ~IsReal(b) THEN
        IF a.ty = "complex" \/ b.ty = "complex" THEN Return(Complex)
        ELSE Raise("TypeError", "type")
    ELSE IF IsExact(b) /\ b.n = 0 THEN Return(Num(Wider(a, b), 1, 1))
    ELSE IF IsZero(a) THEN
        IF IsExact(b) /\ b.n < 0 THEN Raise("ZeroDivisionError", "zero")
        ELSE Return(Num(Wider(a, b), 0, 1))
    ELSE IF IsExact(a) /\ a.n < 0 /\ ~IsExact(b) THEN Return(Complex)
    ELSE IF ~IsExact(a) \/ ~IsExact(b) THEN Return(Inexact)
    ELSE IF b.d = 1 THEN
        IF b.n > Limit \/ -b.n > Limit THEN Return(Inexact)
        ELSE IF b.n > 0 THEN Return(PowNat(Wider(a, b), a, b.n))
        ELSE Return(PowNat("float", Num("float", a.d, a.n), -b.n))
    ELSE IF a.n < 0 THEN Return(Complex)
    ELSE IF a.n = a.d THEN Return(PyFloat(1, 1))
    ELSE Return(Inexact)

\* operator.add, sub, mul, truediv, mod on two values
Arith(op, a, b) ==
    IF a.ty = "str" \/ b.ty = "str" THEN
        IF op = "Add" /\ a.ty = "str" /\ b.ty = "str"
            THEN Return(PyStr(a.n + b.n))
        ELSE IF op = "Mult" /\ a.ty = "str" /\ b.ty = "int"
            THEN Return(PyStr(IF b.n > 0 THEN a.n * b.n ELSE 0))
        ELSE IF op = "Mult" /\ a.ty = "int" /\ b.ty = "str"
            THEN Return(PyStr(IF a.n > 0 THEN a.n * b.n ELSE 0))
        ELSE Raise("TypeError", "type")
    ELSE IF a.ty = "NoneType" \/ b.ty = "NoneType" THEN Raise("TypeError", "type")
    ELSE IF a.ty = "complex" \/ b.ty = "complex" THEN
        IF op = "Mod" THEN Raise("TypeError", "type")
        ELSE IF op = "Div" /\ IsZero(b) THEN Raise("ZeroDivisionError", "zero")
        ELSE Return(Complex)
    ELSE IF op \in {"Div", "Mod"} /\ IsZero(b) THEN Raise("ZeroDivisionError", "zero")
    ELSE IF ~IsExact(a) \/ ~IsExact(b) THEN
        IF op = "Mult" /\ (IsZero(a) \/ IsZero(b)) THEN Return(PyFloat(0, 1))
        ELSE IF op \in {"Div", "Mod"} /\ IsZero(a) THEN Return(PyFloat(0, 1))
        ELSE Return(Inexact)
    ELSE IF op = "Add" THEN Return(Num(Wider(a, b), a.n * b.d + b.n * a.d, a.d * b.d))
    ELSE IF op = "Sub" THEN Return(Num(Wider(a, b), a.n * b.d - b.n * a.d, a.d * b.d))
    ELSE IF op = "Mult" THEN Return(Num(Wider(a, b), a.n * b.n, a.d * b.d))
    ELSE IF op = "Div" THEN Return(Num("float", a.n * b.d, a.d * b.n))
    ELSE \* Mod: a - b * floor(a / b)
        LET q == FloorDiv(a.n * b.d * Sign(b.n), a.d * Abs(b.n))
        IN  Return(Num(Wider(a, b), a.n * b.d - q * b.n * a.d, a.d * b.d))

\* allowed_ops: the ast operator classes with a semantics
BinaryOps == {"Add", "Sub", "Mult", "Div", "Pow", "Mod"}

UnaryOps == {"USub", "UAdd"}

allowed_ops == BinaryOps \cup UnaryOps

\* op(left, right) for an allow-listed binary operator class
ApplyBinary(op, a, b) == IF op = "Pow" THEN PyPow(a, b) ELSE Arith(op, a, b)

\* operator.neg, operator.pos
ApplyUnary(op, a) ==
    IF a.ty \in {"str", "NoneType"} THEN Raise("TypeError", "type")
    ELSE IF op = "USub" THEN Return([a EXCEPT !.n = -a.n])
    ELSE Return(a)

(***************************************************************************)
(* allowed_functions: math.sin, math.cos, math.tan, math.sqrt, math.log,   *)
(* math.log10, math.exp, abs, round, pow, math.ceil, math.floor,           *)
(* math.factorial, math.degrees, math.radians, as CPython defines them.    *)
(***************************************************************************)
allowed_functions ==
    {"sin", "cos", "tan", "sqrt", "log", "log10", "exp", "abs", "round",
     "pow", "ceil", "floor", "factorial", "degrees", "radians"}

\* allowed_names: math.pi and math.e, standing as the nearby rationals
allowed_names == [pi |-> PyFloat(22, 7), e |-> PyFloat(19, 7)]

\* A table that lets the functions of one argument take a second one.
AritiesSecondAllowed(name) ==
    IF name = "pow" THEN {2, 3} ELSE {1, 2}

\* The numbers of positional arguments the callable behind a name accepts.
Arities(name) ==
    IF name \in {"log", "round"} THEN {1, 2}
    ELSE IF name = "pow" THEN {2, 3}
    ELSE {1}

\* 10 ** k for 0 <= k <= 4
Pow10(k) == IF k = 0 THEN 1 ELSE IF k = 1 THEN 10 ELSE IF k = 2 THEN 100
            ELSE IF k = 3 THEN 1000 ELSE 10000

\* n/d (d > 0) rounded to the nearest integer, ties to the even one
RoundHalfEven(n, d) ==
    LET q == FloorDiv(n, d)
        r == n - q * d
    IN  IF 2 * r < d THEN q
        ELSE IF 2 * r > d THEN q + 1
        ELSE IF q % 2 = 0 THEN q ELSE q + 1

\* round(x, ndigits) for an exact x and an int ndigits
RoundTo(x, nd) ==
    IF nd > 4 THEN (IF Pow10(4) % x.d = 0 THEN x ELSE [ty |-> x.ty, n |-> 0, d |-> 0])
    ELSE IF nd < -4 THEN Num(x.ty, 0, 1)
    ELSE IF nd >= 0 THEN
        IF x.ty = "int" THEN x
        ELSE IF x.d > Limit \div Pow10(nd) \/ Abs(x.n) > Limit \div Pow10(nd)
             THEN [ty |-> x.ty, n |-> 0, d |-> 0]
             ELSE Num(x.ty, RoundHalfEven(x.n * Pow10(nd), x.d), Pow10(nd))
    ELSE Num(x.ty, RoundHalfEven(x.n, x.d * Pow10(-nd)) * Pow10(-nd), 1)

\* Is n a perfect square, and its root
IsSquare(n) == \E r \in 0..100 : r * r = n

Root(n) == CHOOSE r \in 0..100 : r * r = n

RECURSIVE Factorial(_)
Factorial(n) ==
    IF n = 0 THEN PyInt(1)
    ELSE LET r == Factorial(n - 1)
         IN  IF IsExact(r) THEN Num("int", r.n * n, 1) ELSE r

\* (a ** b) % m for ints, b >= 0, m # 0, with the sign of m
RECURSIVE PowMod(_, _, _)
PowMod(a, b, m) ==
    LET pm == Abs(m)
        r  == IF b = 0 THEN 1 % pm ELSE (PowMod(a, b - 1, pm) * (a % pm)) % pm
    IN  IF m < 0 /\ r # 0 THEN r + m ELSE r

\* pow(a, b, m): the built-in with three arguments
PyPow3(a, b, m) ==
    IF a.ty # "int" \/ b.ty # "int" \/ m.ty # "int" THEN Raise("TypeError", "type")
    ELSE IF IsZero(m) THEN Raise("ValueError", "domain")
    ELSE IF ~IsExact(a) \/ ~IsExact(b) \/ ~IsExact(m) THEN
        Return([ty |-> "int", n |-> 0, d |-> 0])
    ELSE IF b.n >= 0 THEN Return(PyInt(PowMod(a.n, b.n, m.n)))
    ELSE IF \E i \in 0..(Abs(m.n) - 1) : (i * (a.n % Abs(m.n))) % Abs(m.n) = 1 % Abs(m.n)
        THEN LET inv == CHOOSE i \in 0..(Abs(m.n) - 1) :
                            (i * (a.n % Abs(m.n))) % Abs(m.n) = 1 % Abs(m.n)
             IN  Return(PyInt(PowMod(inv, -b.n, m.n)))
    ELSE Raise("ValueError", "domain")

\* A function of the math module on one argument x.
MathUnary(name, x) ==
    IF ~IsReal(x) THEN Raise("TypeError", "type")
    ELSE IF name \in {"sin", "tan", "degrees", "radians"} THEN
        Return(IF IsZero(x) THEN PyFloat(0, 1) ELSE Inexact)
    ELSE IF name = "cos" THEN
        Return(IF IsZero(x) THEN PyFloat(1, 1) ELSE Inexact)
    ELSE IF name = "exp" THEN
        IF IsZero(x) THEN Return(PyFloat(1, 1))
        ELSE IF IsExact(x) /\ x.n > 709 * x.d THEN Raise("OverflowError", "overflow")
        ELSE Return(Inexact)
    ELSE IF name = "sqrt" THEN
        IF IsExact(x) /\ x.n < 0 THEN Raise("ValueError", "domain")
        ELSE IF IsExact(x) /\ IsSquare(x.n) /\ IsSquare(x.d)
            THEN Return(PyFloat(Root(x.n), Root(x.d)))
        ELSE Return(Inexact)
    ELSE IF name \in {"log", "log10"} THEN
        IF IsExact(x) /\ x.n <= 0 THEN Raise("ValueError", "domain")
        ELSE IF IsExact(x) /\ x.n = x.d THEN Return(PyFloat(0, 1))
        ELSE IF name = "log" /\ x = allowed_names.e THEN Return(PyFloat(1, 1))
        ELSE Return(Inexact)
    ELSE IF name \in {"ceil", "floor"} THEN
        IF ~IsExact(x) THEN Return([ty |-> "int", n |-> 0, d |-> 0])
        ELSE IF name = "floor" THEN Return(PyInt(FloorDiv(x.n, x.d)))
        ELSE Return(PyInt(-FloorDiv(-x.n, x.d)))
    ELSE \* factorial
        IF x.ty # "int" THEN Raise("TypeError", "type")
        ELSE IF ~IsExact(x) THEN Return(x)
        ELSE IF x.n < 0 THEN Raise("ValueError", "domain")
        ELSE IF x.n > Limit THEN Return([ty |-> "int", n |-> 0, d |-> 0])
        ELSE Return(Factorial(x.n))

\* math.log(x, base): log(x) / log(base)
MathLog2(x, b) ==
    LET num == MathUnary("log", x)
        den == MathUnary("log", b)
    IN  IF ~num.ok THEN num
        ELSE IF ~den.ok THEN den
        ELSE Arith("Div", num.value, den.value)

\* allowed_functions[name](*args) on evaluated arguments
ApplyFunction(name, args) ==
    IF Len(args) \notin Arities(name) THEN Raise("TypeError", "arity")
    ELSE IF name = "pow" THEN
        IF Len(args) = 2 THEN PyPow(args[1], args[2])
        ELSE PyPow3(args[1], args[2], args[3])
    ELSE IF name = "abs" THEN
        IF args[1].ty = "complex" THEN Return(Inexact)
        ELSE IF ~IsReal(args[1]) THEN Raise("TypeError", "type")
        ELSE Return([args[1] EXCEPT !.n = Abs(args[1].n)])
    ELSE IF name = "round" THEN
        IF ~IsReal(args[1]) THEN Raise("TypeError", "type")
        ELSE IF Len(args) = 1 \/ args[2].ty = "NoneType" THEN
            IF args[1].ty = "int" THEN Return(args[1])
            ELSE IF ~IsExact(args[1]) THEN Return([ty |-> "int", n |-> 0, d |-> 0])
            ELSE Return(PyInt(RoundHalfEven(args[1].n, args[1].d)))
        ELSE IF args[2].ty # "int" THEN Raise("TypeError", "type")
        ELSE IF ~IsExact(args[1]) \/ ~IsExact(args[2]) THEN
            Return([ty |-> args[1].ty, n |-> 0, d |-> 0])
        ELSE Return(RoundTo(args[1], args[2].n))
    ELSE IF name = "log" /\ Len(args) = 2 THEN MathLog2(args[1], args[2])
    ELSE MathUnary(name, args[1])

(***************************************************************************)
(* Syntax trees, as ast.parse(expr, mode='eval').body builds them.         *)
(***************************************************************************)
Constant(v) == [node |-> "Constant", value |-> v]

Name(id) == [node |-> "Name", id |-> id]

BinOp(l, op, r) == [node |-> "BinOp", left |-> l, op |-> op, right |-> r]

UnaryOp(op, x) == [node |-> "UnaryOp", op |-> op, operand |-> x]

\* keywords: the name=value and **value arguments, in order
Call(f, args, kws) == [node |-> "Call", func |-> f, args |-> args, keywords |-> kws]

Attribute(v, attr) == [node |-> "Attribute", value |-> v, attr |-> attr]

Starred(v) == [node |-> "Starred", value |-> v]

Tuple(elts) == [node |-> "Tuple", elts |-> elts]

(***************************************************************************)
(* safe_eval and its eval_node.                                            *)
(***************************************************************************)
RECURSIVE eval_node(_)
RECURSIVE EvalArgs(_, _, _)

\* An evaluation of the arguments that reports the failure of the rightmost
\* failing argument instead of the leftmost.
EvalArgsRightmost(args, i, vals) ==
    LET failing == {k \in i..Len(args) : ~eval_node(args[k]).ok}
    IN  IF failing = {}
        THEN [ok |-> TRUE,
              values |-> vals \o [k \in 1..(Len(args) - i + 1) |->
                                     eval_node(args[i + k - 1]).value],
              raised |-> Raise("", "")]
        ELSE [ok |-> FALSE, values |-> <<>>,
              raised |-> eval_node(args[CHOOSE k \in failing :
                                            \A j \in failing : j <= k])]

\* [eval_node(arg) for arg in node.args] from index i on, vals evaluated so
\* far: the values, or the first exception raised.
EvalArgs(args, i, vals) ==
    IF i > Len(args) THEN [ok |-> TRUE, values |-> vals, raised |-> Raise("", "")]
    ELSE LET r == eval_node(args[i])
         IN  IF r.ok THEN EvalArgs(args, i + 1, Append(vals, r.value))
             ELSE [ok |-> FALSE, values |-> <<>>, raised |-> r]

eval_node(node) ==
    IF node.node = "Constant" THEN Return(node.value)
    ELSE IF node.node = "Name" THEN
        IF node.id \in DOMAIN allowed_names THEN Return(allowed_names[node.id])
        ELSE Raise("ValueError", "name")
    ELSE IF node.node = "BinOp" THEN
        LET left == eval_node(node.left)
        IN  IF ~left.ok THEN left
            ELSE LET right == eval_node(node.right)
                 IN  IF ~right.ok THEN right
                     ELSE IF node.op \notin allowed_ops THEN Raise("ValueError", "operator")
                     ELSE ApplyBinary(node.op, left.value, right.value)
    ELSE IF node.node = "UnaryOp" THEN
        LET operand == eval_node(node.operand)
        IN  IF ~operand.ok THEN operand
            ELSE IF node.op \notin allowed_ops THEN Raise("ValueError", "operator")
            ELSE ApplyUnary(node.op, operand.value)
    ELSE IF node.node = "Call" THEN
        IF node.func.node = "Name" /\ node.func.id \in allowed_functions THEN
            LET args == EvalArgs(node.args, 1, <<>>)
            IN  IF ~args.ok THEN args.raised
                ELSE ApplyFunction(node.func.id, args.values)
        ELSE Raise("ValueError", "function")
    ELSE Raise("ValueError", "node")

\* The outcome ast.parse gives: a tree, or a SyntaxError.
Parsed(t) == [ok |-> TRUE, body |-> t]

SyntaxError == [ok |-> FALSE, body |-> Constant(PyNone)]

\* The try/except of safe_eval: every exception of parsing or evaluation is
\* raised again as ValueError("Invalid expression: ..."); cause keeps the
\* class of the exception caught.
safe_eval(parsed) ==
    LET r == IF parsed.ok THEN eval_node(parsed.body)
             ELSE Raise("SyntaxError", "syntax")
    IN  IF r.ok THEN [ok |-> TRUE, value |-> r.value, exc |-> "", why |-> "", cause |-> ""]
        ELSE [ok |-> FALSE, value |-> PyNone, exc |-> "ValueError",
              why |-> r.why, cause |-> r.exc]

(***************************************************************************)
(* The trees explored.                                                     *)
(***************************************************************************)
\* Integer literals run over 0..MaxLit
MaxLit == 2

\* A call carries at most MaxArgs positional arguments
MaxArgs == 4

Literals ==
    {Constant(PyInt(n)) : n \in 0..MaxLit} \cup {Constant(PyStr(1)), Constant(PyNone)}

Names == {Name("pi"), Name("e"), Name("x")}

Leaves == Literals \cup Names

\* ast.FloorDiv and ast.Not stand for the operator classes off the allow-list
BinaryClasses == BinaryOps \cup {"FloorDiv"}

UnaryClasses == UnaryOps \cup {"Not"}

One == Constant(PyInt(1))

Two == Constant(PyInt(2))

Zero == Constant(PyInt(0))

\* Operations on leaves
Arithmetic1 ==
    {BinOp(l, op, r) : l \in Leaves, op \in BinaryClasses, r \in Leaves}
    \cup {UnaryOp(op, x) : op \in UnaryClasses, x \in Leaves}

\* Call targets: the allow-listed names, a name off the list, an attribute
Targets ==
    {Name(f) : f \in allowed_functions \cup {"foo"}}
    \cup {Attribute(Name("math"), "sin")}

\* Keyword arguments: none, ndigits=x, **x
KeywordLists ==
    {<<>>, <<[arg |-> "ndigits", value |-> Name("x")]>>,
     <<[arg |-> "", value |-> Name("x")]>>}

\* Calls on at most two leaves
LeafCalls ==
    {Call(f, <<>>, <<>>) : f \in Targets}
    \cup {Call(f, <<a>>, <<>>) : f \in Targets, a \in Leaves}
    \cup {Call(f, <<a, b>>, <<>>) : f \in Targets, a \in Leaves, b \in Leaves}

\* Arguments of the longer calls: two that evaluate, one whose name is off
\* the list, one that divides by zero
ArgNodes == {One, Two, Name("x"), BinOp(One, "Div", Zero)}

ArgLists == UNION {[1..k -> ArgNodes] : k \in 0..MaxArgs}

LongCalls ==
    {Call(f, args, kws) : f \in Targets, args \in ArgLists, kws \in KeywordLists}

\* Operands of the nested operations: leaves, a computed zero, calls that
\* return zero, return a float or fail, an operator off the list, a starred
Operands ==
    Leaves \cup
    {BinOp(One, "Sub", One), BinOp(One, "FloorDiv", Two), UnaryOp("USub", Two),
     Call(Name("sin"), <<Zero>>, <<>>), Call(Name("sin"), <<One>>, <<>>),
     Call(Name("foo"), <<One>>, <<>>), Starred(Name("x"))}

Arithmetic2 ==
    {BinOp(l, op, r) : l \in Operands, op \in BinaryClasses, r \in Operands}

Trees == Leaves \cup Arithmetic1 \cup LeafCalls \cup LongCalls \cup Arithmetic2

ParseOutcomes == {Parsed(t) : t \in Trees} \cup {SyntaxError}

(***************************************************************************)
(* The evaluator on its own: ast.parse has produced a tree or a            *)
(* SyntaxError, and safe_eval runs on it.                                  *)
(***************************************************************************)
NoText == <<>>

NoOutcome == Raise("", "")

InitEval ==
    /\ pc = "parsed"
    /\ tree \in ParseOutcomes
    /\ expr = NoText
    /\ converted = NoText
    /\ result = NoOutcome
    /\ prev = NoOutcome
    /\ sent = <<>>
    /\ response = ""
    /\ invoked = {}

Evaluate ==
    /\ pc = "parsed"
    /\ result' = safe_eval(tree)
    /\ pc' = "evaluated"
    /\ UNCHANGED <<expr, tree, converted, prev, sent, response, invoked>>

NextEval == Evaluate

SpecEval == InitEval /\ [][NextEval]_vars

\* The tree holds, at some position, a name outside allowed_names, an
\* operator class outside allowed_ops, or a call whose target is not an
\* allow-listed function name.  The positions of a call are its positional
\* and its keyword arguments.
RECURSIVE Offends(_)
Offends(node) ==
    IF node.node = "Constant" THEN FALSE
    ELSE IF node.node = "Name" THEN node.id \notin DOMAIN allowed_names
    ELSE IF node.node = "BinOp" THEN
        node.op \notin allowed_ops \/ Offends(node.left) \/ Offends(node.right)
    ELSE IF node.node = "UnaryOp" THEN
        node.op \notin allowed_ops \/ Offends(node.operand)
    ELSE IF node.node = "Call" THEN
        \/ ~(node.func.node = "Name" /\ node.func.id \in allowed_functions)
        \/ \E i \in DOMAIN node.args : Offends(node.args[i])
        \/ \E k \in DOMAIN node.keywords : Offends(node.keywords[k].value)
    ELSE IF node.node = "Tuple" THEN
        \E i \in DOMAIN node.elts : Offends(node.elts[i])
    ELSE Offends(node.value)

\* The tree is a call of an allow-listed function name.
IsAllowedCall(t) ==
    /\ t.ok
    /\ t.body.node = "Call"
    /\ t.body.func.node = "Name"
    /\ t.body.func.id \in allowed_functions

\* C1: whenever the parsed tree holds anywhere (the arguments of a call
\* included) a name outside {pi, e}, an operator off the allow-list or a
\* call of a target off the allow-list, safe_eval fails and returns no value.
C1_OffendingTreeFails ==
    (pc = "evaluated" /\ tree.ok /\ Offends(tree.body)) => ~result.ok

\* The arities the specification gives: 1 or 2 for round, exactly 2 for
\* pow, exactly 1 for every other function.
ClaimedArity(name) ==
    IF name = "round" THEN {1, 2} ELSE IF name = "pow" THEN {2} ELSE {1}

\* The arities of the amended statement: 1 or 2 for round and for log,
\* 2 or 3 for pow, exactly 1 for every other function.
AmendedArity(name) ==
    IF name \in {"round", "log"} THEN {1, 2}
    ELSE IF name = "pow" THEN {2, 3}
    ELSE {1}

\* A call of an allow-listed function whose positional arguments all
\* evaluate has been evaluated.
CallApplied ==
    /\ pc = "evaluated"
    /\ IsAllowedCall(tree)
    /\ \A i \in DOMAIN tree.body.args : eval_node(tree.body.args[i]).ok

\* C4 as amended: a call of an allow-listed function whose positional
\* arguments evaluate fails with an arity error, and yields no value,
\* exactly when their number is outside the function's arity: 1 for sin, cos,
\* tan, sqrt, log10, exp, abs, ceil, floor, factorial, degrees, radians; 1 or
\* 2 for round and log; 2 or 3 for pow.  Keyword arguments are not counted.
C4_ArityTable ==
    CallApplied =>
        LET mismatch == Len(tree.body.args) \notin AmendedArity(tree.body.func.id)
        IN  /\ mismatch => ~result.ok /\ result.cause = "TypeError"
            /\ mismatch <=> result.why = "arity"

\* C4 as stated: with log taking exactly 1 argument and pow exactly 2,
\* every other number of arguments fails with an arity error.
C4_ClaimedArityTable ==
    CallApplied =>
        (Len(tree.body.args) \notin ClaimedArity(tree.body.func.id)
            => ~result.ok /\ result.why = "arity")

\* pow called with one argument fails with the arity error.
C4_Witness ==
    /\ pc = "evaluated"
    /\ tree = Parsed(Call(Name("pow"), <<Two>>, <<>>))
    /\ ~result.ok /\ result.why = "arity"

\* C5: whenever safe_eval returns, the value returned is a number.
C5_ReturnsOnlyNumbers ==
    (pc = "evaluated" /\ result.ok) => IsNumber(result.value)

\* The least index of an argument whose evaluation fails, 0 when all succeed.
LeftmostFailing(args) ==
    IF \E i \in DOMAIN args : ~eval_node(args[i]).ok
    THEN CHOOSE i \in DOMAIN args :
            /\ ~eval_node(args[i]).ok
            /\ \A j \in 1..(i - 1) : eval_node(args[j]).ok
    ELSE 0

\* C10: the evaluation of a call looks the target up first (a target off the
\* allow-list is the failure reported, whatever the arguments do), then
\* evaluates the arguments left to right (the failure reported is that of the
\* leftmost failing argument), and finds an argument-count mismatch only
\* when every argument has evaluated.
C10_CallOrder ==
    (pc = "evaluated" /\ tree.ok /\ tree.body.node = "Call") =>
        IF ~IsAllowedCall(tree) THEN ~result.ok /\ result.why = "function"
        ELSE LET args == tree.body.args
                 k    == LeftmostFailing(args)
             IN  IF k # 0
                 THEN /\ ~result.ok
                      /\ result.why = eval_node(args[k]).why
                      /\ result.cause = eval_node(args[k]).exc
                 ELSE Len(args) \notin Arities(tree.body.func.id)
                        => ~result.ok /\ result.why = "arity"

\* sin called with three arguments, the second an unknown name and the
\* third a division by zero, reports the unknown name.
C10_Witness ==
    /\ pc = "evaluated"
    /\ tree = Parsed(Call(Name("sin"),
                          <<One, Name("x"), BinOp(One, "Div", Zero)>>, <<>>))
    /\ ~result.ok /\ result.why = "name"

(***************************************************************************)
(* The preprocessor on its own: preprocess_expression runs on a text, and  *)
(* again on its own output.                                                *)
(***************************************************************************)
\* A power chain has at most MaxOperands operands
MaxOperands == 3

\* A raw text has at most MaxRaw characters
MaxRaw == 4

\* Operands: a number, an identifier (a constant name), groups without and
\* with parentheses inside, a call; names in the wrong case
PowOperands ==
    { <<"2",".","5">>, <<"P","i">>, <<"(","2","+","E",")">>,
      <<"(","(","2",")",")">>, <<"S","i","n","(","2",")">> }

Joiners == { <<"*","*">>, <<" ","*","*"," ">>, <<"+">> }

\* Operands joined by ** (bare or spaced) or by +
RECURSIVE Chains(_)
Chains(k) ==
    IF k = 1 THEN PowOperands
    ELSE {c \o j \o o : c \in Chains(k - 1), j \in Joiners, o \in PowOperands}

RawAlphabet == {"E", "x", "p", "I", "*"}

RawTexts == UNION {[1..n -> RawAlphabet] : n \in 0..MaxRaw}

PreInputs == UNION {Chains(k) : k \in 1..MaxOperands} \cup RawTexts

InitPre ==
    /\ pc = "text"
    /\ expr \in PreInputs
    /\ tree = SyntaxError
    /\ converted = NoText
    /\ result = NoText
    /\ prev = NoText
    /\ sent = <<>>
    /\ response = ""
    /\ invoked = {}

\* preprocess_expression(expr)
Preprocess ==
    /\ pc = "text"
    /\ converted' = convert_power_operator(expr)
    /\ result' = preprocess_expression(expr)
    /\ pc' = "once"
    /\ UNCHANGED <<expr, tree, prev, sent, response, invoked>>

\* preprocess_expression on the text it returned
PreprocessAgain ==
    /\ pc = "once"
    /\ prev' = result
    /\ converted' = convert_power_operator(result)
    /\ result' = preprocess_expression(result)
    /\ pc' = "twice"
    /\ UNCHANGED <<expr, tree, sent, response, invoked>>

NextPre == Preprocess \/ PreprocessAgain

SpecPre == InitPre /\ [][NextPre]_vars

\* The indices at which a ** starts
PowerAt(s) == {i \in 1..(Len(s) - 1) : s[i] = "*" /\ s[i + 1] = "*"}

\* An unsigned number: digits, optionally a point and digits
IsNumberText(t) ==
    /\ Len(t) > 0
    /\ LET d == RunEnd(t, 1, Digits)
       IN  /\ d > 1
           /\ \/ d = Len(t) + 1
              \/ /\ t[d] = "."
                 /\ d + 1 <= Len(t)
                 /\ RunEnd(t, d + 1, Digits) = Len(t) + 1

IsIdentText(t) ==
    /\ Len(t) > 0
    /\ t[1] \in IdentStart
    /\ \A k \in DOMAIN t : t[k] \in IdentChars

Count(s, a, b, c) == Cardinality({k \in a..b : s[k] = c})

\* The parenthesis that the one closing at j opens at, 0 when unbalanced
OpenOf(s, j) ==
    LET ms == {m \in 1..j : Count(s, m, j, "(") = Count(s, m, j, ")")}
    IN  IF ms = {} THEN 0 ELSE CHOOSE m \in ms : \A n \in ms : n <= m

\* The parenthesis that closes the one opening at a, 0 when unbalanced
CloseOf(s, a) ==
    LET cs == {c \in a..Len(s) : Count(s, a, c, "(") = Count(s, a, c, ")")}
    IN  IF cs = {} THEN 0 ELSE CHOOSE c \in cs : \A n \in cs : c <= n

TokenChars == IdentChars \cup {"."}

NoOperand == [kind |-> "none", first |-> 0, last |-> 0]

\* The operand to the left of the ** at i: a number, an identifier, or a
\* balanced non-empty group that is not the argument list of a call
LeftOperand(s, i) ==
    LET j == RunStart(s, i - 1, Whitespace) - 1
    IN  IF j < 1 THEN NoOperand
        ELSE IF s[j] \in IdentChars THEN
            LET k   == RunStart(s, j, TokenChars)
                tok == SubSeq(s, k, j)
            IN  IF IsNumberText(tok) THEN [kind |-> "num", first |-> k, last |-> j]
                ELSE IF IsIdentText(tok) THEN [kind |-> "id", first |-> k, last |-> j]
                ELSE NoOperand
        ELSE IF s[j] = ")" THEN
            LET m == OpenOf(s, j)
            IN  IF m = 0 \/ m = j - 1 \/ (m > 1 /\ s[m - 1] \in IdentChars)
                THEN NoOperand
                ELSE [kind |-> "group", first |-> m, last |-> j]
        ELSE NoOperand

\* The operand to the right of the ** at i: a number, an identifier that
\* is not called, or a balanced non-empty group
RightOperand(s, i) ==
    LET a == RunEnd(s, i + 2, Whitespace)
    IN  IF a > Len(s) THEN NoOperand
        ELSE IF s[a] \in IdentChars THEN
            LET b   == RunEnd(s, a, TokenChars) - 1
                tok == SubSeq(s, a, b)
            IN  IF IsNumberText(tok) THEN [kind |-> "num", first |-> a, last |-> b]
                ELSE IF IsIdentText(tok) /\ ~(b + 1 <= Len(s) /\ s[b + 1] = "(")
                    THEN [kind |-> "id", first |-> a, last |-> b]
                ELSE NoOperand
        ELSE IF s[a] = "(" THEN
            LET c == CloseOf(s, a)
            IN  IF c = 0 \/ c = a + 1 THEN NoOperand
                ELSE [kind |-> "group", first |-> a, last |-> c]
        ELSE NoOperand

\* No parenthesis inside a group operand
Flat(s, o) ==
    o.kind = "group" =>
        \A k \in (o.first + 1)..(o.last - 1) : s[k] \notin {"(", ")"}

\* The operand starting at k is also the right operand of a ** before it
SharedLeft(s, k) ==
    LET j == RunStart(s, k - 1, Whitespace) - 1
    IN  j >= 2 /\ s[j] = "*" /\ s[j - 1] = "*"

\* The operand ending at b is also the left operand of a ** after it
SharedRight(s, b) ==
    LET a == RunEnd(s, b + 1, Whitespace)
    IN  a + 1 <= Len(s) /\ s[a] = "*" /\ s[a + 1] = "*"

\* Each ** has a number, an identifier or a parenthesized group on both sides
OperandsAsStated(s) ==
    \A i \in PowerAt(s) :
        LeftOperand(s, i).kind # "none" /\ RightOperand(s, i).kind # "none"

\* Moreover a group holds no parenthesis, and a ** with a group operand
\* shares no operand with another **
OperandsAsAmended(s) ==
    \A i \in PowerAt(s) :
        LET l == LeftOperand(s, i)
            r == RightOperand(s, i)
        IN  /\ l.kind # "none" /\ r.kind # "none"
            /\ Flat(s, l) /\ Flat(s, r)
            /\ "group" \in {l.kind, r.kind}
                => ~SharedLeft(s, l.first) /\ ~SharedRight(s, r.last)

\* C6 as amended: when each ** of the input has on both sides an unsigned
\* number, an identifier that is not called, or a non-empty parenthesized
\* group that holds no parenthesis and is not a call's argument list, and no
\* ** with a group operand shares an operand with another **, the output of
\* preprocess_expression holds no **.
C6_NoPowerLeft ==
    (pc = "once" /\ OperandsAsAmended(expr)) => ~HasPowerOperator(result)

\* C6 as stated: when each ** of the input has on both sides a number, an
\* identifier or a parenthesized group (one holding parentheses included),
\* the output of preprocess_expression holds no **.
C6_NoPowerLeftAsStated ==
    (pc = "once" /\ OperandsAsStated(expr)) => ~HasPowerOperator(result)

\* (2+E) ** Pi+2.5 has become pow((2+e), pi)+2.5.
C6_Witness ==
    /\ pc = "once"
    /\ expr = <<"(","2","+","E",")"," ","*","*"," ","P","i","+","2",".","5">>
    /\ OperandsAsAmended(expr)
    /\ result = <<"p","o","w","(","(","2","+","e",")",","," ","p","i",")",
                  "+","2",".","5">>

\* The index after the unsigned number starting at i, 0 when there is none
NumberEnd(s, i) ==
    IF i > Len(s) \/ s[i] \notin Digits THEN 0
    ELSE LET d == RunEnd(s, i, Digits)
         IN  IF d + 1 <= Len(s) /\ s[d] = "." /\ s[d + 1] \in Digits
             THEN RunEnd(s, d + 1, Digits)
             ELSE d

\* The number of ** in s[i..] when it is a chain of numbers joined by **
\* (with optional whitespace around each **), -1 when it is not
RECURSIVE ChainPowers(_, _)
ChainPowers(s, i) ==
    LET e == NumberEnd(s, i)
    IN  IF e = 0 THEN -1
        ELSE IF e = Len(s) + 1 THEN 0
        ELSE LET a == RunEnd(s, e, Whitespace)
             IN  IF a + 1 <= Len(s) /\ s[a] = "*" /\ s[a + 1] = "*"
                 THEN LET r == ChainPowers(s, RunEnd(s, a + 2, Whitespace))
                      IN  IF r < 0 THEN -1 ELSE r + 1
                 ELSE -1

\* Some ** has a call as its left operand
PowerAfterCall(s) ==
    \E i \in PowerAt(s) :
        LET j == RunStart(s, i - 1, Whitespace) - 1
        IN  /\ j >= 1 /\ s[j] = ")"
            /\ LET m == OpenOf(s, j)
               IN  /\ m > 1
                   /\ s[m - 1] \in IdentChars
                   /\ s[RunStart(s, m - 1, IdentChars)] \in IdentStart

\* The names called in a text: each identifier directly followed by "("
CallNames(s) ==
    {Slice(s, RunStart(s, i - 1, IdentChars), i) :
        i \in {k \in 2..Len(s) :
                /\ s[k] = "("
                /\ s[k - 1] \in IdentChars
                /\ s[RunStart(s, k - 1, IdentChars)] \in IdentStart}}

\* C7: on a chain of two or more ** over number literals, and on a ** whose
\* left operand is a function call, convert_power_operator introduces no
\* call name but pow and keeps every call name of the input.
C7_OnlyPowIntroduced ==
    (pc = "once" /\ (ChainPowers(expr, 1) >= 2 \/ PowerAfterCall(expr))) =>
        /\ CallNames(converted) \subseteq CallNames(expr) \cup {<<"p","o","w">>}
        /\ CallNames(expr) \subseteq CallNames(converted)

MaxMessages == 3

\* The message texts explored, before padding
Texts ==
    << <<"2"," ","+"," ","2"," ","*"," ","5">>,
       <<"s","q","r","t","(","1","6",")"," ","+"," ","p","o","w","(","2",","," ","3",")">>,
       <<"s","i","n","(","p","i","/","2",")">>,
       <<"f","a","c","t","o","r","i","a","l","(","5",")">>,
       <<"2","*","*","3">>,
       <<"1","0","/","4">>,
       <<"S","I","N","(","0",")">>,
       <<"2","4","*","7">>,
       <<"1","/","0">>,
       <<"5","%","0">>,
       <<"I"," ","w","i","l","l"," ","b","e"," ","a","v","a","i","l","a","b","l","e"," ","2","4","*","7">>,
       <<"h","e","l","l","o">>,
       <<"2","*","*","3","*","*","2">>,
       <<"s","i","n","(","1",")","*","*","2">>,
       <<"'","e","'","*","3">>,
       <<"a","b","s","(","1",","," ","*","*","f","o","o",")">>,
       <<"r","o","u","n","d","(","2",".","5",","," ","n","d","i","g","i","t","s","=","x",")">>,
       <<"l","o","g","(","8",",","2",")">>,
       <<"p","o","w","(","2",",","3",",","5",")">>,
       <<"a"," ","2","%","3">>,
       <<"f","o","o","(","1","/","0",")">>,
       <<"2"," ","*"," ","P","i">> >>

\* ast.parse(text, mode='eval') on the preprocessed form of each text: the
\* tree CPython 3.11 builds, or its SyntaxError
ParseTable ==
    << <<<<"2"," ","+"," ","2"," ","*"," ","5">>,
          Parsed(BinOp(Constant(PyInt(2)), "Add", BinOp(Constant(PyInt(2)), "Mult", Constant(PyInt(5)))))>>,
       <<<<"s","q","r","t","(","1","6",")"," ","+"," ","p","o","w","(","2",","," ","3",")">>,
          Parsed(BinOp(Call(Name("sqrt"), <<Constant(PyInt(16))>>, <<>>), "Add", Call(Name("pow"), <<Constant(PyInt(2)), Constant(PyInt(3))>>, <<>>)))>>,
       <<<<"s","i","n","(","p","i","/","2",")">>,
          Parsed(Call(Name("sin"), <<BinOp(Name("pi"), "Div", Constant(PyInt(2)))>>, <<>>))>>,
       <<<<"f","a","c","t","o","r","i","a","l","(","5",")">>,
          Parsed(Call(Name("factorial"), <<Constant(PyInt(5))>>, <<>>))>>,
       <<<<"p","o","w","(","2",","," ","3",")">>,
          Parsed(Call(Name("pow"), <<Constant(PyInt(2)), Constant(PyInt(3))>>, <<>>))>>,
       <<<<"1","0","/","4">>,
          Parsed(BinOp(Constant(PyInt(10)), "Div", Constant(PyInt(4))))>>,
       <<<<"s","i","n","(","0",")">>,
          Parsed(Call(Name("sin"), <<Constant(PyInt(0))>>, <<>>))>>,
       <<<<"2","4","*","7">>,
          Parsed(BinOp(Constant(PyInt(24)), "Mult", Constant(PyInt(7))))>>,
       <<<<"1","/","0">>,
          Parsed(BinOp(Constant(PyInt(1)), "Div", Constant(PyInt(0))))>>,
       <<<<"5","%","0">>,
          Parsed(BinOp(Constant(PyInt(5)), "Mod", Constant(PyInt(0))))>>,
       <<<<"I"," ","w","i","l","l"," ","b","e"," ","a","v","a","i","l","a","b","l","e"," ","2","4","*","7">>,
          SyntaxError>>,
       <<<<"h","e","l","l","o">>,
          Parsed(Name("hello"))>>,
       <<<<"p","o","w","p","o","w","(","(","2",","," ","3",")",","," ","2",")">>,
          Parsed(Call(Name("powpow"), <<Tuple(<<Constant(PyInt(2)), Constant(PyInt(3))>>), Constant(PyInt(2))>>, <<>>))>>,
       <<<<"s","i","n","p","o","w","(","(","1",")",","," ","2",")">>,
          Parsed(Call(Name("sinpow"), <<Constant(PyInt(1)), Constant(PyInt(2))>>, <<>>))>>,
       <<<<"'","e","'","*","3">>,
          Parsed(BinOp(Constant(PyStr(1)), "Mult", Constant(PyInt(3))))>>,
       <<<<"a","b","s","(","1",","," ","*","*","f","o","o",")">>,
          Parsed(Call(Name("abs"), <<Constant(PyInt(1))>>, <<[arg |-> "", value |-> Name("foo")]>>))>>,
       <<<<"r","o","u","n","d","(","2",".","5",","," ","n","d","i","g","i","t","s","=","x",")">>,
          Parsed(Call(Name("round"), <<Constant(PyFloat(5, 2))>>, <<[arg |-> "ndigits", value |-> Name("x")]>>))>>,
       <<<<"l","o","g","(","8",",","2",")">>,
          Parsed(Call(Name("log"), <<Constant(PyInt(8)), Constant(PyInt(2))>>, <<>>))>>,
       <<<<"p","o","w","(","2",",","3",",","5",")">>,
          Parsed(Call(Name("pow"), <<Constant(PyInt(2)), Constant(PyInt(3)), Constant(PyInt(5))>>, <<>>))>>,
       <<<<"a"," ","2","%","3">>,
          SyntaxError>>,
       <<<<"f","o","o","(","1","/","0",")">>,
          Parsed(Call(Name("foo"), <<BinOp(Constant(PyInt(1)), "Div", Constant(PyInt(0)))>>, <<>>))>>,
       <<<<"2"," ","*"," ","p","i">>,
          Parsed(BinOp(Constant(PyInt(2)), "Mult", Name("pi")))>> >>

ast_parse(t) ==
    ParseTable[CHOOSE i \in DOMAIN ParseTable : ParseTable[i][1] = t][2]

\* Whitespace around a text, for message.text.strip() to remove
Pads == {<< <<>>, <<>> >>, << <<" ">>, <<>> >>, << <<"\t">>, <<" ", "\n">> >>}

Messages == {p[1] \o Texts[i] \o p[2] : i \in DOMAIN Texts, p \in Pads}

\* if isinstance(result, float): int(result) when integral, else
\* round(result, 10).  A float that is not tracked exactly stays so.
FormatResult(v) ==
    IF v.ty = "float" /\ IsExact(v)
    THEN IF v.d = 1 THEN PyInt(v.n) ELSE RoundTo(v, 10)
    ELSE v

NoReply == [kind |-> "none", value |-> PyNone, detail |-> ""]

\* The reply chosen by the try/except of handle_expression for an outcome
\* of safe_eval.
ReplyFor(r) ==
    IF r.ok THEN [kind |-> "result", value |-> FormatResult(r.value), detail |-> ""]
    ELSE IF r.exc = "ZeroDivisionError"
        THEN [kind |-> "division_by_zero", value |-> PyNone, detail |-> ""]
    ELSE IF r.exc = "ValueError"
        THEN [kind |-> "value_error", value |-> PyNone, detail |-> r.why]
    ELSE [kind |-> "invalid", value |-> PyNone, detail |-> ""]

\* The body of handle_expression after the classifier's check: safe_eval
\* (preprocess, parse, evaluate), formatting, and one bot.reply_to.
Respond(e) ==
    LET parsed == ast_parse(preprocess_expression(e))
        r      == safe_eval(parsed)
        reply  == ReplyFor(r)
    IN  /\ converted' = convert_power_operator(e)
        /\ tree' = parsed
        /\ result' = r
        /\ response' = reply
        /\ sent' = Append(sent, reply.kind)
        /\ invoked' = {"classify", "preprocess", "parse", "evaluate", "reply"}

\* if not is_math_expression(expr): return
Ignore ==
    /\ converted' = NoText
    /\ tree' = SyntaxError
    /\ result' = NoOutcome
    /\ response' = NoReply
    /\ sent' = sent
    /\ invoked' = {"classify"}

\* A handler without the early return.
HandleWithoutReturn(text) ==
    /\ Len(sent) < MaxMessages
    /\ expr' = Strip(text)
    /\ pc' = "handled"
    /\ prev' = prev
    /\ Respond(Strip(text))

handle_expression(text) ==
    /\ Len(sent) < MaxMessages
    /\ expr' = Strip(text)
    /\ pc' = "handled"
    /\ prev' = prev
    /\ IF is_math_expression(Strip(text)) THEN Respond(Strip(text)) ELSE Ignore

Init ==
    /\ pc = "idle"
    /\ expr = NoText
    /\ tree = SyntaxError
    /\ converted = NoText
    /\ result = NoOutcome
    /\ prev = NoText
    /\ sent = <<>>
    /\ response = NoReply
    /\ invoked = {}

Next == \E text \in Messages : handle_expression(text)

Spec == Init /\ [][Next]_vars

\* C2: each handled message gets a reply exactly when the classifier
\* accepted its text: on acceptance exactly one reply (a result or an error
\* message) is sent; on rejection nothing is sent and neither
\* preprocessing, parsing nor evaluation runs.
C2_ReplyIffAccepted ==
    [][IF is_math_expression(expr')
       THEN /\ sent' = Append(sent, response'.kind)
            /\ response'.kind \in {"result", "division_by_zero",
                                   "value_error", "invalid"}
       ELSE /\ sent' = sent
            /\ invoked' \cap {"preprocess", "parse", "evaluate", "reply"} = {}]_vars

\* A rejected message follows an accepted one: one reply has been sent, and
\* the last call only ran the classifier.
C2_Witness ==
    /\ pc = "handled"
    /\ expr = Texts[11]
    /\ ~is_math_expression(expr)
    /\ sent = <<"result">>
    /\ invoked = {"classify"}

\* C3: an accepted expression whose evaluation divides by zero (division
\* or modulo) is answered with the division-by-zero message, not with the
\* message of another failure.
C3_DivisionByZeroReply ==
    (pc = "handled" /\ "evaluate" \in invoked /\ ~result.ok
        /\ result.cause = "ZeroDivisionError")
        => response.kind = "division_by_zero"

(***************************************************************************)
(* The classifier on its own: is_math_expression on texts made of a        *)
(* number, an operator and a number, alone or with words around.           *)
(***************************************************************************)
\* A number of the texts has at most MaxDigits digits
MaxDigits == 2

NumberTexts == UNION {[1..n -> {"2", "7"}] : n \in 1..MaxDigits}

Spacings == {<<>>, <<" ">>}

WordsBefore ==
    {<<>>, <<"a", " ">>, <<"a", "t", " ", " ">>,
     <<"f","r","e","e"," ">>}

WordsAfter == {<<>>, <<" ", "a">>, <<"\t", "x">>}

ClassifierInputs ==
    {b \o l \o g \o <<op>> \o g \o r \o a :
        b \in WordsBefore, l \in NumberTexts, g \in Spacings,
        op \in NumberOps, r \in NumberTexts, a \in WordsAfter}

InitClassify ==
    /\ pc = "text"
    /\ expr \in ClassifierInputs
    /\ tree = SyntaxError
    /\ converted = NoText
    /\ result = FALSE
    /\ prev = NoText
    /\ sent = <<>>
    /\ response = ""
    /\ invoked = {}

Classify ==
    /\ pc = "text"
    /\ result' = is_math_expression(expr)
    /\ pc' = "classified"
    /\ UNCHANGED <<expr, tree, converted, prev, sent, response, invoked>>

NextClassify == Classify

SpecClassify == InitClassify /\ [][NextClassify]_vars

\* C9: for every operator rule 6 recognizes between two numbers (+ - * /
\* ^ %), a text in which a letter and whitespace come before the
\* number-operator-number sequence, or whitespace and a letter after it, is
\* rejected, and the sequence standing alone is accepted.
C9_ProseRejected ==
    pc = "classified" =>
        /\ (LetterThenNumOpNum(expr, NumberOps) \/ NumOpNumThenLetter(expr, NumberOps))
                => result = FALSE
        /\ NumOpNumEnd(expr, 1, NumberOps) = Len(expr) + 1 => result = TRUE

====
